---- MODULE Spec2Model ----
(***************************************************************************)
(* Self scaling hash table of services/shared/common/hash.c.               *)
(*                                                                         *)
(* A chain is the sequence of its buckets, the slot array the sequence of   *)
(* its chains, and the heap counts the blocks handed out.  Every public     *)
(* operation is one action that runs the whole handler, from _inc_ref to    *)
(* _dec_ref, including the resize it may trigger.  Allocation results and   *)
(* the visitor's answers are inputs.                                        *)
(***************************************************************************)
EXTENDS Integers, Sequences, FiniteSets, Bags, TLC

(* ---------------------------------------------------------------------- *)
(* Bounds of the model                                                     *)
(* ---------------------------------------------------------------------- *)
MaxKey == 2          \* keys are the words 0..MaxKey
MaxVal == 2          \* values are the words 0..MaxVal (0 is the sentinel)
MaxBuckets == 3      \* bucket nodes the allocator hands out at most
MaxInitLen == 5      \* largest uInitialLen passed to HASH_Create
MaxRef == 1          \* hRefCount is not driven beyond this by failed inserts
MaxCalls == 3        \* operations started in a run of the guard, nested ones included
MaxDepth == 2        \* frames on one call stack: an iterate and a nested call

Keys == 0..MaxKey
Vals == 0..MaxVal

BUCKET_SIG == "0xBEA57FED"
BUCKET_FREE == "0xBCE7DEAD"
PVRSRV_OK == 0
PVRSRV_ERROR_ABORT == 1

(* ---------------------------------------------------------------------- *)
(* Evaluation helper                                                       *)
(* ---------------------------------------------------------------------- *)
\* F applied to the value of e: e is evaluated once, like an assignment to
\* a local variable, however often F uses it
Bind(e, F(_)) == CHOOSE r \in {F(x) : x \in {e}} : TRUE

(* ---------------------------------------------------------------------- *)
(* IMG_UINT32 arithmetic: a word is <<hi, lo>>, two 16-bit halves          *)
(* ---------------------------------------------------------------------- *)
Half == 65536

ToU32(n) == <<(n \div Half) % Half, n % Half>>

\* a << s modulo 2^32, for 0 < s < 16
Shl(a, s) ==
    <<(a[1] * (2^s) + ((a[2] * (2^s)) \div Half)) % Half, (a[2] * (2^s)) % Half>>

\* a >> s, for 0 < s < 32
Shr(a, s) ==
    IF s >= 16
    THEN <<0, a[1] \div (2^(s - 16))>>
    ELSE <<a[1] \div (2^s), (a[2] \div (2^s)) + (a[1] % (2^s)) * (2^(16 - s))>>

RECURSIVE XorHalf(_, _)
XorHalf(x, y) ==
    IF x = 0 THEN y
    ELSE IF y = 0 THEN x
    ELSE (((x % 2) + (y % 2)) % 2) + 2 * XorHalf(x \div 2, y \div 2)

Xor(a, b) == <<XorHalf(a[1], b[1]), XorHalf(a[2], b[2])>>

\* a + b modulo 2^32
Add(a, b) ==
    <<(a[1] + b[1] + ((a[2] + b[2]) \div Half)) % Half, (a[2] + b[2]) % Half>>

\* the value of the 32-bit word a, modulo m (m < 2^15)
U32Mod(a, m) == ((a[1] % m) * (Half % m) + (a[2] % m)) % m

(* ---------------------------------------------------------------------- *)
(* Hash / compare strategy (keys of one uintptr_t, as HASH_Create sets up) *)
(* ---------------------------------------------------------------------- *)
\* uHashPart += (uHashPart << s)
AddShl(p, s) == Bind(Shl(p, s), LAMBDA q : Add(p, q))

\* uHashPart ^= (uHashPart >> s)
XorShr(p, s) == Bind(Shr(p, s), LAMBDA q : Xor(p, q))

\* the eight mixing statements of the loop body, the first n of them
RECURSIVE HashPart(_, _)
HashPart(p, n) ==
    IF n = 0 THEN p
    ELSE Bind(HashPart(p, n - 1),
              LAMBDA u : CASE n = 1 -> AddShl(u, 12)
                           [] n = 2 -> XorShr(u, 22)
                           [] n = 3 -> AddShl(u, 4)
                           [] n = 4 -> XorShr(u, 9)
                           [] n = 5 -> AddShl(u, 10)
                           [] n = 6 -> XorShr(u, 2)
                           [] n = 7 -> AddShl(u, 7)
                           [] n = 8 -> XorShr(u, 12))

\* uKeyLen is 1: one pass of the loop, uHashKey = 0 + uHashPart
HASH_Func_Default(pKey) ==
    Bind(ToU32(pKey), LAMBDA p : Bind(HashPart(p, 8), LAMBDA u : Add(ToU32(0), u)))

HASH_Key_Comp_Default(pKey1, pKey2) == pKey1 = pKey2

\* pHash->pfnHashFunc is HASH_Func_Default (HASH_Create); its result for
\* every key of the model, computed once
HashOfKeys == {<<k, HASH_Func_Default(k)>> : k \in Keys}

pfnHashFunc(pKey) == (CHOOSE p \in HashOfKeys : p[1] = pKey)[2]

\* KEY_TO_INDEX(pHash, key, uSize): pfnHashFunc(uKeySize, key, uSize) % uSize
KEY_TO_INDEX(key, uSize) ==
    Bind(key, LAMBDA k : U32Mod(pfnHashFunc(k), uSize))

KEY_COMPARE(pKey1, pKey2) == HASH_Key_Comp_Default(pKey1, pKey2)

PRIVATE_MAX(a, b) == IF a > b THEN a ELSE b

(* ---------------------------------------------------------------------- *)
(* State                                                                   *)
(* ---------------------------------------------------------------------- *)
VARIABLES
    tableState,   \* "none" before HASH_Create, "live", "deleted" after HASH_Delete
    pHash,        \* the fields of struct _HASH_TABLE_
    heap,         \* how many blocks of each kind the allocator has handed out
    aborted,      \* BUG()/abort() was reached, or a fault stopped the caller
    last,         \* the last operation: its inputs and its result
    guard,        \* hRefCount and the call stacks inside public operations,
                  \* with _inc_ref and _dec_ref taken one statement at a time
    rz            \* one table and the position of a _Resize inside its body

vars == <<tableState, pHash, heap, aborted, last, guard, rz>>

\* A chain is the sequence of its buckets from the head on: the head is
\* element 1 and pNext of element i is element i + 1 (NULL after the last).
\* The slot array is the sequence of its chains, slot i being element i + 1;
\* a NULL slot is the empty chain.
NoTable == [uSize |-> 0, uCount |-> 0, uMinimumSize |-> 0, uKeySize |-> 0,
            ppBucketTable |-> <<>>, hRefCount |-> 0]

EmptyHeap == [buckets |-> 0, arrays |-> 0, tables |-> 0]

\* the arguments of a create call besides uInitialLen, and the answers of
\* the allocator to it
NoArgs == [uKeySize |-> 0, hashFn |-> FALSE, compFn |-> FALSE,
           tableOk |-> FALSE, arrayOk |-> FALSE]

\* no _Resize is under way
NoResize == [pc |-> "idle"]

NoOp == [op |-> "none", k |-> 0, v |-> 0, ret |-> 0, fatal |-> FALSE,
         bucketAllocFailed |-> FALSE, resize |-> "none", fault |-> FALSE,
         ub |-> FALSE, found |-> FALSE, visited |-> <<>>,
         preCount |-> 0, preSize |-> 0, allocs |-> 0, args |-> NoArgs]

\* struct _BUCKET_ as HASH_Insert_Extended fills it in
NewBucket(pKey, v) == [ui32Sig |-> BUCKET_SIG, v |-> v, k |-> pKey]

\* an array of uSize NULL slots
NullTable(uSize) == [i \in 1..uSize |-> <<>>]

\* ppTable[uIndex], slots counted from 0
Slot(ppTable, uIndex) == ppTable[uIndex + 1]

(* ---------------------------------------------------------------------- *)
(* Reentrancy guard                                                        *)
(* ---------------------------------------------------------------------- *)
\* _inc_ref: reads, increments; a nonzero read is only logged
_inc_ref(h) == [h EXCEPT !.hRefCount = @ + 1]

\* _dec_ref reaches BUG()/abort() when it reads anything but 1
DecRefFatal(h) == h.hRefCount # 1

\* _dec_ref: reads, decrements (before the check)
_dec_ref(h) == [h EXCEPT !.hRefCount = @ - 1]

\* a faulty _ChainInsert: every bucket is linked into slot 0
_ChainInsert_Slot0(pBucket, ppBucketTable, uSize) ==
    [ppBucketTable EXCEPT ![1] = <<pBucket>> \o @]

\* pBucket->pNext = ppBucketTable[uIndex]; ppBucketTable[uIndex] = pBucket
_ChainInsert(pBucket, ppBucketTable, uSize) ==
    Bind(KEY_TO_INDEX(pBucket.k, uSize),
         LAMBDA uIndex : [ppBucketTable EXCEPT ![uIndex + 1] = <<pBucket>> \o @])

\* the while loop of _Rehash over one old chain, from the bucket at
\* position i on
RECURSIVE RehashChain(_, _, _, _)
RehashChain(chain, i, ppNewTable, uNewSize) ==
    IF i > Len(chain) THEN ppNewTable
    ELSE Bind(_ChainInsert(chain[i], ppNewTable, uNewSize),
              LAMBDA t : RehashChain(chain, i + 1, t, uNewSize))

\* the for loop of _Rehash, from slot uIndex on
RECURSIVE RehashFrom(_, _, _, _, _)
RehashFrom(ppOldTable, uOldSize, uIndex, ppNewTable, uNewSize) ==
    IF uIndex >= uOldSize THEN ppNewTable
    ELSE Bind(RehashChain(Slot(ppOldTable, uIndex), 1, ppNewTable, uNewSize),
              LAMBDA t : RehashFrom(ppOldTable, uOldSize, uIndex + 1, t, uNewSize))

_Rehash(ppOldTable, uOldSize, ppNewTable, uNewSize) ==
    RehashFrom(ppOldTable, uOldSize, 0, ppNewTable, uNewSize)

\* a faulty _Resize: the failure path hands back a table whose slots were
\* already cleared
_Resize_FailureClears(h, m, uNewSize, allocOk) ==
    IF uNewSize # h.uSize
    THEN IF ~allocOk
         THEN [h |-> [h EXCEPT !.ppBucketTable = NullTable(h.uSize)], m |-> m,
               ret |-> FALSE]
         ELSE [h |-> [h EXCEPT !.ppBucketTable =
                                   _Rehash(h.ppBucketTable, h.uSize,
                                           NullTable(uNewSize), uNewSize),
                               !.uSize = uNewSize],
               m |-> m, ret |-> TRUE]
    ELSE [h |-> h, m |-> m, ret |-> TRUE]

\* _Resize: ret is IMG_TRUE/IMG_FALSE; allocOk is the result of the
\* slot-array allocation.  The new array is allocated (arrays + 1) before
\* the old one is freed (arrays - 1).
_Resize(h, m, uNewSize, allocOk) ==
    IF uNewSize # h.uSize
    THEN IF ~allocOk
         THEN [h |-> h, m |-> m, ret |-> FALSE]
         ELSE [h |-> [h EXCEPT !.ppBucketTable =
                                   _Rehash(h.ppBucketTable, h.uSize,
                                           NullTable(uNewSize), uNewSize),
                               !.uSize = uNewSize],
               m |-> [m EXCEPT !.arrays = (@ + 1) - 1],
               ret |-> TRUE]
    ELSE [h |-> h, m |-> m, ret |-> TRUE]

(* ---------------------------------------------------------------------- *)
(* HASH_Create_Extended                                                    *)
(* ---------------------------------------------------------------------- *)
WordSize == 8

\* a faulty create: a failed slot-array allocation returns NULL without
\* freeing the table structure
HASH_Create_Extended_KeepsTable(m, uInitialLen, uKeySize, hashFn, compFn, tableOk, arrayOk) ==
    IF uInitialLen = 0 \/ uKeySize = 0 \/ ~hashFn \/ ~compFn
    THEN [h |-> NoTable, m |-> m, ret |-> FALSE, allocs |-> 0]
    ELSE IF ~tableOk
    THEN [h |-> NoTable, m |-> m, ret |-> FALSE, allocs |-> 1]
    ELSE IF ~arrayOk
    THEN [h |-> NoTable, m |-> [m EXCEPT !.tables = @ + 1], ret |-> FALSE,
          allocs |-> 2]
    ELSE [h |-> [uSize |-> uInitialLen, uCount |-> 0, uMinimumSize |-> uInitialLen,
                 uKeySize |-> uKeySize, ppBucketTable |-> NullTable(uInitialLen),
                 hRefCount |-> 0],
          m |-> [m EXCEPT !.tables = @ + 1, !.arrays = @ + 1],
          ret |-> TRUE, allocs |-> 2]

\* ret is TRUE when a table handle is returned, FALSE for NULL.  The table
\* structure is allocated first and freed again when the slot array cannot
\* be allocated.  allocs counts the calls of OSAllocMem.
HASH_Create_Extended(m, uInitialLen, uKeySize, hashFn, compFn, tableOk, arrayOk) ==
    IF uInitialLen = 0 \/ uKeySize = 0 \/ ~hashFn \/ ~compFn
    THEN [h |-> NoTable, m |-> m, ret |-> FALSE, allocs |-> 0]
    ELSE IF ~tableOk
    THEN [h |-> NoTable, m |-> m, ret |-> FALSE, allocs |-> 1]
    ELSE IF ~arrayOk
    THEN [h |-> NoTable, m |-> [m EXCEPT !.tables = (@ + 1) - 1], ret |-> FALSE,
          allocs |-> 2]
    ELSE [h |-> [uSize |-> uInitialLen, uCount |-> 0, uMinimumSize |-> uInitialLen,
                 uKeySize |-> uKeySize, ppBucketTable |-> NullTable(uInitialLen),
                 hRefCount |-> 0],
          m |-> [m EXCEPT !.tables = @ + 1, !.arrays = @ + 1],
          ret |-> TRUE, allocs |-> 2]

(* ---------------------------------------------------------------------- *)
(* HASH_Insert_Extended                                                    *)
(* ---------------------------------------------------------------------- *)
\* a faulty grow condition: the table also grows at uCount * 2 = uSize
GrowNeeded_Eager(h) == h.uCount * 2 >= h.uSize

\* "check if we need to think about re-balancing", insert side
GrowNeeded(h) == h.uCount * 2 > h.uSize

\* a faulty rebalance: the table grows by one slot instead of doubling
InsertRebalance_GrowsByOne(h2, m1, arrayOk) ==
    Bind(IF GrowNeeded(h2)
         THEN _Resize(h2, m1, h2.uSize + 1, arrayOk)
         ELSE [h |-> h2, m |-> m1, ret |-> TRUE],
         LAMBDA rs : [h |-> _dec_ref(rs.h), m |-> rs.m,
                      ret |-> 1, fatal |-> DecRefFatal(rs.h),
                      bucketAllocFailed |-> FALSE,
                      resize |-> IF ~GrowNeeded(h2) THEN "none"
                                 ELSE IF rs.ret THEN "ok" ELSE "failed"])

\* the part of HASH_Insert_Extended after _ChainInsert and uCount++
InsertRebalance(h2, m1, arrayOk) ==
    Bind(IF GrowNeeded(h2)
         THEN _Resize(h2, m1, h2.uSize * 2, arrayOk)
         ELSE [h |-> h2, m |-> m1, ret |-> TRUE],
         LAMBDA rs : [h |-> _dec_ref(rs.h), m |-> rs.m,
                      ret |-> 1, fatal |-> DecRefFatal(rs.h),
                      bucketAllocFailed |-> FALSE,
                      resize |-> IF ~GrowNeeded(h2) THEN "none"
                                 ELSE IF rs.ret THEN "ok" ELSE "failed"])

\* ret is 1 for IMG_TRUE, 0 for IMG_FALSE; fatal: _dec_ref reached BUG().
\* A failed bucket allocation returns straight after _inc_ref.
HASH_Insert_Extended(h0, m0, pKey, v, bucketOk, arrayOk) ==
    IF ~bucketOk
    THEN [h |-> _inc_ref(h0), m |-> m0, ret |-> 0, fatal |-> FALSE,
          bucketAllocFailed |-> TRUE, resize |-> "none"]
    ELSE Bind([_inc_ref(h0) EXCEPT
                   !.ppBucketTable = _ChainInsert(NewBucket(pKey, v), @, h0.uSize),
                   !.uCount = @ + 1],
              LAMBDA h2 : InsertRebalance(h2, [m0 EXCEPT !.buckets = @ + 1], arrayOk))

(* ---------------------------------------------------------------------- *)
(* Chain lookup shared by HASH_Remove_Extended and HASH_Retrieve_Extended  *)
(* ---------------------------------------------------------------------- *)
\* the for loop over *ppBucket: the position in the chain of the first
\* bucket, from position i on, whose key compares equal; 0 when the chain ends
RECURSIVE FindInChain(_, _, _)
FindInChain(chain, i, pKey) ==
    IF i > Len(chain) THEN 0
    ELSE IF KEY_COMPARE(chain[i].k, pKey) THEN i
    ELSE FindInChain(chain, i + 1, pKey)

\* a faulty unlink: (*ppBucket) = NULL, which cuts the chain at position i
Unlink_CutsChain(chain, i) == SubSeq(chain, 1, i - 1)

\* (*ppBucket) = pBucket->pNext for the bucket at position i
Unlink(chain, i) == SubSeq(chain, 1, i - 1) \o SubSeq(chain, i + 1, Len(chain))

(* ---------------------------------------------------------------------- *)
(* HASH_Remove_Extended                                                    *)
(* ---------------------------------------------------------------------- *)
\* a faulty shrink condition: the table shrinks only below one eighth
ShrinkNeeded_Lazy(h) == h.uSize > h.uCount * 8 /\ h.uSize > h.uMinimumSize

\* "check if we need to think about re-balancing", remove side
ShrinkNeeded(h) == h.uSize > h.uCount * 4 /\ h.uSize > h.uMinimumSize

\* a faulty rebalance: the shrink ignores uMinimumSize
RemoveRebalance_NoFloor(h2, m1, v, arrayOk) ==
    Bind(IF h2.uSize > h2.uCount * 4
         THEN _Resize(h2, m1, PRIVATE_MAX(h2.uSize \div 2, 1), arrayOk)
         ELSE [h |-> h2, m |-> m1, ret |-> TRUE],
         LAMBDA rs : [h |-> _dec_ref(rs.h), m |-> rs.m, ret |-> v,
                      fatal |-> DecRefFatal(rs.h), found |-> TRUE,
                      resize |-> IF ~(h2.uSize > h2.uCount * 4) THEN "none"
                                 ELSE IF rs.ret THEN "ok" ELSE "failed"])

\* the part of HASH_Remove_Extended after the bucket was freed and uCount--
RemoveRebalance(h2, m1, v, arrayOk) ==
    Bind(IF ShrinkNeeded(h2)
         THEN _Resize(h2, m1, PRIVATE_MAX(h2.uSize \div 2, h2.uMinimumSize), arrayOk)
         ELSE [h |-> h2, m |-> m1, ret |-> TRUE],
         LAMBDA rs : [h |-> _dec_ref(rs.h), m |-> rs.m, ret |-> v,
                      fatal |-> DecRefFatal(rs.h), found |-> TRUE,
                      resize |-> IF ~ShrinkNeeded(h2) THEN "none"
                                 ELSE IF rs.ret THEN "ok" ELSE "failed"])

\* the body of the for loop once the key compared equal at position i of
\* the chain of slot uIndex
RemoveFound(h1, m0, uIndex, chain, i, arrayOk) ==
    Bind([h1 EXCEPT !.ppBucketTable[uIndex + 1] = Unlink(chain, i),
                    !.uCount = @ - 1],
         LAMBDA h2 : RemoveRebalance(h2, [m0 EXCEPT !.buckets = @ - 1],
                                     chain[i].v, arrayOk))

\* a faulty scan: a miss still decrements uCount
RemoveScan_MissCounts(h1, m0, pKey, uIndex, chain, arrayOk) ==
    Bind(FindInChain(chain, 1, pKey),
         LAMBDA i : IF i # 0
                    THEN RemoveFound(h1, m0, uIndex, chain, i, arrayOk)
                    ELSE [h |-> _dec_ref([h1 EXCEPT !.uCount = PRIVATE_MAX(@ - 1, 0)]),
                          m |-> m0, ret |-> 0,
                          fatal |-> DecRefFatal(h1), found |-> FALSE,
                          resize |-> "none"])

\* the scan of the chain of slot uIndex
RemoveScan(h1, m0, pKey, uIndex, chain, arrayOk) ==
    Bind(FindInChain(chain, 1, pKey),
         LAMBDA i : IF i # 0
                    THEN RemoveFound(h1, m0, uIndex, chain, i, arrayOk)
                    ELSE [h |-> _dec_ref(h1), m |-> m0, ret |-> 0,
                          fatal |-> DecRefFatal(h1), found |-> FALSE,
                          resize |-> "none"])

HASH_Remove_Extended(h0, m0, pKey, arrayOk) ==
    Bind(KEY_TO_INDEX(pKey, h0.uSize),
         LAMBDA uIndex : RemoveScan(_inc_ref(h0), m0, pKey, uIndex,
                                    Slot(h0.ppBucketTable, uIndex), arrayOk))

(* ---------------------------------------------------------------------- *)
(* HASH_Retrieve_Extended                                                  *)
(* ---------------------------------------------------------------------- *)
\* the scan of the chain of the key's slot
RetrieveScan(h1, m0, pKey, chain) ==
    Bind(FindInChain(chain, 1, pKey),
         LAMBDA i : [h |-> _dec_ref(h1), m |-> m0,
                     ret |-> IF i # 0 THEN chain[i].v ELSE 0,
                     fatal |-> DecRefFatal(h1)])

HASH_Retrieve_Extended(h0, m0, pKey) ==
    Bind(Slot(h0.ppBucketTable, KEY_TO_INDEX(pKey, h0.uSize)),
         LAMBDA chain : RetrieveScan(_inc_ref(h0), m0, pKey, chain))

(* ---------------------------------------------------------------------- *)
(* HASH_Iterate                                                            *)
(* ---------------------------------------------------------------------- *)
\* the visitor: its stopAt-th invocation answers an error, every other one
\* PVRSRV_OK (stopAt = 0: it never answers an error)
Callback(nth, stopAt) == IF nth = stopAt THEN PVRSRV_ERROR_ABORT ELSE PVRSRV_OK

\* a faulty chain walk: only the head of the chain is handed to the visitor
IterChain_HeadOnly(chain, i, visited, stopAt) ==
    IF i > Len(chain) THEN [visited |-> visited, eError |-> PVRSRV_OK]
    ELSE Bind(Append(visited, <<chain[i].k, chain[i].v>>),
              LAMBDA vis : [visited |-> vis, eError |-> Callback(Len(vis), stopAt)])

\* the while loop over one chain, from the bucket at position i on; visited
\* is the sequence of <<key, value>> pairs the visitor was invoked with so far
RECURSIVE IterChain(_, _, _, _)
IterChain(chain, i, visited, stopAt) ==
    IF i > Len(chain) THEN [visited |-> visited, eError |-> PVRSRV_OK]
    ELSE Bind(Append(visited, <<chain[i].k, chain[i].v>>),
              LAMBDA vis : IF Callback(Len(vis), stopAt) # PVRSRV_OK
                           THEN [visited |-> vis, eError |-> Callback(Len(vis), stopAt)]
                           ELSE IterChain(chain, i + 1, vis, stopAt))

\* a faulty slot loop: an error of the visitor is remembered but the walk
\* goes on to the next slot
RECURSIVE IterFrom_GoesOn(_, _, _, _)
IterFrom_GoesOn(h, uIndex, visited, stopAt) ==
    IF uIndex >= h.uSize
    THEN [visited |-> visited,
          eError |-> IF stopAt # 0 /\ Len(visited) >= stopAt
                     THEN PVRSRV_ERROR_ABORT ELSE PVRSRV_OK]
    ELSE Bind(IterChain(Slot(h.ppBucketTable, uIndex), 1, visited, stopAt),
              LAMBDA r : IterFrom_GoesOn(h, uIndex + 1, r.visited, stopAt))

\* the for loop over the slots, from slot uIndex on
RECURSIVE IterFrom(_, _, _, _)
IterFrom(h, uIndex, visited, stopAt) ==
    IF uIndex >= h.uSize THEN [visited |-> visited, eError |-> PVRSRV_OK]
    ELSE Bind(IterChain(Slot(h.ppBucketTable, uIndex), 1, visited, stopAt),
              LAMBDA r : IF r.eError # PVRSRV_OK THEN r
                         ELSE IterFrom(h, uIndex + 1, r.visited, stopAt))

HASH_Iterate(h0, m0, stopAt) ==
    Bind(IterFrom(h0, 0, <<>>, stopAt),
         LAMBDA r : [h |-> _dec_ref(_inc_ref(h0)), m |-> m0, ret |-> r.eError,
                     fatal |-> DecRefFatal(_inc_ref(h0)), visited |-> r.visited])

(* ---------------------------------------------------------------------- *)
(* HASH_Delete                                                             *)
(* ---------------------------------------------------------------------- *)
\* the for loop "Removing remaining %u hash entries", from index i on: it
\* tombstones and frees ppBucketTable[i], the head of slot i, and nothing
\* behind it.  ppBucketTable[i] with i >= uSize reads past the array, and a
\* NULL ppBucketTable[i] is written through: both are undefined; ubCrash
\* chooses between the fault stopping the caller there and the access going
\* unnoticed.  freed counts the buckets handed to OSFreeMem.
RECURSIVE DeleteFrom(_, _, _, _, _, _)
DeleteFrom(h, freed, i, uiEntriesLeft, ubCrash, ub) ==
    IF i >= uiEntriesLeft THEN [freed |-> freed, fault |-> FALSE, ub |-> ub]
    ELSE IF i >= h.uSize \/ Slot(h.ppBucketTable, i) = <<>>
    THEN IF ubCrash
         THEN [freed |-> freed, fault |-> TRUE, ub |-> TRUE]
         ELSE DeleteFrom(h, freed, i + 1, uiEntriesLeft, ubCrash, TRUE)
    ELSE DeleteFrom(h, freed + 1, i + 1, uiEntriesLeft, ubCrash, ub)

\* the part of HASH_Delete after the cleanup loop
DeleteFinish(h1, m0, r) ==
    IF r.fault
    THEN [h |-> h1, m |-> [m0 EXCEPT !.buckets = @ - r.freed],
          fault |-> TRUE, ub |-> r.ub]
    ELSE [h |-> NoTable,
          m |-> [m0 EXCEPT !.buckets = @ - r.freed, !.arrays = @ - 1,
                           !.tables = @ - 1],
          fault |-> FALSE, ub |-> r.ub]

HASH_Delete(h0, m0, ubCrash) ==
    Bind(IF h0.uCount # 0
         THEN DeleteFrom(h0, 0, 0, h0.uCount, ubCrash, FALSE)
         ELSE [freed |-> 0, fault |-> FALSE, ub |-> FALSE],
         LAMBDA r : DeleteFinish(_inc_ref(h0), m0, r))

(* ---------------------------------------------------------------------- *)
(* The guard, statement by statement, on two call stacks                   *)
(* ---------------------------------------------------------------------- *)
\* the two logical call stacks that use the same table
Stacks == {1, 2}

\* the public operations that end with _dec_ref
GuardedOps == {"insert", "remove", "retrieve", "iterate"}

\* refCount is pHash->hRefCount; frames[t] is call stack t, innermost frame
\* last; a frame is the operation, its position and the iRef it read last;
\* bugged is the stack that reached BUG()/abort(), 0 when none did; leaked
\* counts the inserts that returned without _dec_ref; overlap remembers that
\* two frames were past their _inc_ref with neither at or past the read of
\* its _dec_ref; ncalls counts the operations started, nested ones included.
NoGuard == [refCount |-> 0, frames |-> [t \in Stacks |-> <<>>], bugged |-> 0,
            leaked |-> 0, overlap |-> FALSE, ncalls |-> 0]

NewFrame(op) == [op |-> op, pc |-> "inc_read", iRef |-> 0]

Top(g, t) == g.frames[t][Len(g.frames[t])]

\* stack t with its innermost frame replaced by f
SetTop(g, t, f) == [g.frames EXCEPT ![t][Len(g.frames[t])] = f]

\* stack t without its innermost frame: the operation returned
PopTop(g, t) == [g.frames EXCEPT ![t] = SubSeq(@, 1, Len(@) - 1)]

\* the frames of all stacks, as <<stack, depth>> pairs
FrameIds(fr) == {<<t, d>> \in Stacks \X (1..MaxDepth + 1) : d <= Len(fr[t])}

\* two frames are past _inc_ref and neither has performed the read of its
\* _dec_ref
OverlapNow(fr) ==
    \E a \in FrameIds(fr), b \in FrameIds(fr) :
        /\ a # b
        /\ fr[a[1]][a[2]].pc \in {"body", "dec_read"}
        /\ fr[b[1]][b[2]].pc \in {"body", "dec_read"}

\* if (1 != iRef) BUG()
BugOnExit(iRef) == 1 # iRef

\* the guard after a step that leaves the frames as fr
WithFrames(g, fr) == [g EXCEPT !.frames = fr, !.overlap = @ \/ OverlapNow(fr)]

\* a call stack enters a public operation
Call(t) ==
    /\ guard.bugged = 0 /\ guard.frames[t] = <<>> /\ guard.ncalls < MaxCalls
    /\ \E op \in GuardedOps :
         guard' = [WithFrames(guard, [guard.frames EXCEPT ![t] = <<NewFrame(op)>>])
                      EXCEPT !.ncalls = @ + 1]
    /\ UNCHANGED <<tableState, pHash, heap, aborted, last, rz>>

\* _inc_ref: iRef = OSAtomicRead(&pHash->hRefCount)
IncRead(t) ==
    /\ guard.bugged = 0 /\ guard.frames[t] # <<>> /\ Top(guard, t).pc = "inc_read"
    /\ guard' = WithFrames(guard, SetTop(guard, t,
                    [Top(guard, t) EXCEPT !.iRef = guard.refCount, !.pc = "inc_add"]))
    /\ UNCHANGED <<tableState, pHash, heap, aborted, last, rz>>

\* _inc_ref: OSAtomicIncrement(&pHash->hRefCount); a nonzero iRef is logged
\* and _inc_ref returns, which ends the life of its iRef
IncAdd(t) ==
    /\ guard.bugged = 0 /\ guard.frames[t] # <<>> /\ Top(guard, t).pc = "inc_add"
    /\ guard' = [WithFrames(guard, SetTop(guard, t,
                     [Top(guard, t) EXCEPT !.pc = "body", !.iRef = 0]))
                    EXCEPT !.refCount = @ + 1]
    /\ UNCHANGED <<tableState, pHash, heap, aborted, last, rz>>

\* the body of the operation ran to its _dec_ref
BodyDone(t) ==
    /\ guard.bugged = 0 /\ guard.frames[t] # <<>> /\ Top(guard, t).pc = "body"
    /\ guard' = WithFrames(guard, SetTop(guard, t, [Top(guard, t) EXCEPT !.pc = "dec_read"]))
    /\ UNCHANGED <<tableState, pHash, heap, aborted, last, rz>>

\* HASH_Insert_Extended: the bucket allocation failed, return IMG_FALSE
AllocFail(t) ==
    /\ guard.bugged = 0 /\ guard.frames[t] # <<>>
    /\ Top(guard, t).pc = "body" /\ Top(guard, t).op = "insert"
    /\ guard' = [WithFrames(guard, PopTop(guard, t)) EXCEPT !.leaked = @ + 1]
    /\ UNCHANGED <<tableState, pHash, heap, aborted, last, rz>>

\* HASH_Iterate: the visitor calls a public operation on the same table
Reenter(t) ==
    /\ guard.bugged = 0 /\ guard.frames[t] # <<>>
    /\ Top(guard, t).pc = "body" /\ Top(guard, t).op = "iterate"
    /\ Len(guard.frames[t]) < MaxDepth /\ guard.ncalls < MaxCalls
    /\ \E op \in {"insert", "remove", "retrieve"} :
         guard' = [WithFrames(guard, [guard.frames EXCEPT ![t] = Append(@, NewFrame(op))])
                      EXCEPT !.ncalls = @ + 1]
    /\ UNCHANGED <<tableState, pHash, heap, aborted, last, rz>>

\* _dec_ref: iRef = OSAtomicRead(&pHash->hRefCount)
DecRead(t) ==
    /\ guard.bugged = 0 /\ guard.frames[t] # <<>> /\ Top(guard, t).pc = "dec_read"
    /\ guard' = WithFrames(guard, SetTop(guard, t,
                    [Top(guard, t) EXCEPT !.iRef = guard.refCount, !.pc = "dec_sub"]))
    /\ UNCHANGED <<tableState, pHash, heap, aborted, last, rz>>

\* _dec_ref: OSAtomicDecrement(&pHash->hRefCount)
DecSub(t) ==
    /\ guard.bugged = 0 /\ guard.frames[t] # <<>> /\ Top(guard, t).pc = "dec_sub"
    /\ guard' = [WithFrames(guard, SetTop(guard, t, [Top(guard, t) EXCEPT !.pc = "dec_check"]))
                    EXCEPT !.refCount = @ - 1]
    /\ UNCHANGED <<tableState, pHash, heap, aborted, last, rz>>

\* _dec_ref: if (1 != iRef) BUG(), else the operation returns
DecCheck(t) ==
    /\ guard.bugged = 0 /\ guard.frames[t] # <<>> /\ Top(guard, t).pc = "dec_check"
    /\ guard' = IF BugOnExit(Top(guard, t).iRef)
                THEN [guard EXCEPT !.bugged = t]
                ELSE WithFrames(guard, PopTop(guard, t))
    /\ UNCHANGED <<tableState, pHash, heap, aborted, last, rz>>

\* the next statement of call stack t
GuardStep(t) ==
    \/ IncRead(t) \/ IncAdd(t) \/ BodyDone(t) \/ AllocFail(t) \/ Reenter(t)
    \/ DecRead(t) \/ DecSub(t) \/ DecCheck(t)

GuardNext ==
    \E t \in Stacks :
        \/ Call(t) \/ IncRead(t) \/ IncAdd(t) \/ BodyDone(t) \/ AllocFail(t)
        \/ Reenter(t) \/ DecRead(t) \/ DecSub(t) \/ DecCheck(t)

(* ---------------------------------------------------------------------- *)
(* _Resize, statement by statement                                         *)
(* ---------------------------------------------------------------------- *)
\* rz holds one table: uSize, uMinimumSize, uCount as in struct
\* _HASH_TABLE_; ppBucketTable names the array the table points to, "old"
\* or "new"; arrays gives for either array whether the allocator has it
\* allocated or freed, its length and its slots; uNewSize, uIndex and pos
\* are the argument and the loop position of the _Resize under way, ret its
\* result.
NoArray == [state |-> "none", len |-> 0, slots |-> <<>>]

NewArray(uSize) == [state |-> "allocated", len |-> uSize, slots |-> NullTable(uSize)]

\* the table HASH_Create_Extended hands back for uInitialLen
RzTable(uInitialLen) ==
    [pc |-> "ready", uSize |-> uInitialLen, uMinimumSize |-> uInitialLen,
     uCount |-> 0, ppBucketTable |-> "old",
     arrays |-> [old |-> NewArray(uInitialLen), new |-> NoArray],
     uNewSize |-> 0, uIndex |-> 0, pos |-> 1, ret |-> TRUE]

\* the array pHash->ppBucketTable points to
Referenced(r) == r.arrays[r.ppBucketTable]

\* the rebalancing check after uCount++ or uCount--: _Resize is entered
\* with uNewSize when needed is TRUE
EnterResize(r, needed, uNewSize) ==
    IF needed THEN [r EXCEPT !.pc = "compare", !.uNewSize = uNewSize,
                             !.uIndex = 0, !.pos = 1]
    ELSE r

\* a faulty adoption: the new array is adopted but uSize keeps its value
AdoptSize_KeepsSize(r) == [r EXCEPT !.pc = "done", !.ret = TRUE]

\* pHash->uSize = uNewSize; return IMG_TRUE
AdoptSize(r) == [r EXCEPT !.uSize = r.uNewSize, !.pc = "done", !.ret = TRUE]

RzCreate ==
    /\ rz.pc = "idle"
    /\ \E uInitialLen \in 1..MaxInitLen : rz' = RzTable(uInitialLen)
    /\ UNCHANGED <<tableState, pHash, heap, aborted, last, guard>>

\* HASH_Insert_Extended up to its call of _Resize
RzInsert ==
    /\ rz.pc = "ready" /\ rz.uCount < MaxBuckets
    /\ \E pKey \in Keys, v \in Vals :
         \E r \in {[rz EXCEPT !.arrays.old.slots = _ChainInsert(NewBucket(pKey, v), @, rz.uSize),
                              !.uCount = @ + 1]} :
             rz' = EnterResize(r, GrowNeeded(r), r.uSize * 2)
    /\ UNCHANGED <<tableState, pHash, heap, aborted, last, guard>>

\* HASH_Remove_Extended of a key that is found, up to its call of _Resize
RzRemove ==
    /\ rz.pc = "ready"
    /\ \E pKey \in Keys :
         \E uIndex \in {KEY_TO_INDEX(pKey, rz.uSize)} :
         \E i \in {FindInChain(Slot(rz.arrays.old.slots, uIndex), 1, pKey)} :
             /\ i # 0
             /\ \E r \in {[rz EXCEPT !.arrays.old.slots[uIndex + 1] = Unlink(@, i),
                                     !.uCount = @ - 1]} :
                   rz' = EnterResize(r, ShrinkNeeded(r),
                                     PRIVATE_MAX(r.uSize \div 2, r.uMinimumSize))
    /\ UNCHANGED <<tableState, pHash, heap, aborted, last, guard>>

\* if (uNewSize != pHash->uSize)
RzCompare ==
    /\ rz.pc = "compare"
    /\ rz' = IF rz.uNewSize # rz.uSize THEN [rz EXCEPT !.pc = "alloc"]
             ELSE [rz EXCEPT !.pc = "done", !.ret = TRUE]
    /\ UNCHANGED <<tableState, pHash, heap, aborted, last, guard>>

\* ppNewTable = OSAllocMem(...), return IMG_FALSE when NULL, and the loop
\* that sets every slot of ppNewTable to NULL
RzAlloc ==
    /\ rz.pc = "alloc"
    /\ \E allocOk \in BOOLEAN :
         rz' = IF allocOk
               THEN [rz EXCEPT !.arrays.new = NewArray(rz.uNewSize), !.pc = "rehash"]
               ELSE [rz EXCEPT !.pc = "done", !.ret = FALSE]
    /\ UNCHANGED <<tableState, pHash, heap, aborted, last, guard>>

\* a faulty turn of the while loop of _Rehash: it goes on to pNextBucket
\* without linking pBucket into ppNewTable
RehashStep_SkipsBucket(r) == [r EXCEPT !.pos = @ + 1]

\* one turn of the while loop of _Rehash: _ChainInsert of pBucket into
\* ppNewTable, then pBucket = pNextBucket
RehashStep(r) ==
    [r EXCEPT !.arrays.new.slots =
                  _ChainInsert(Slot(r.arrays.old.slots, r.uIndex)[r.pos], @, r.uNewSize),
              !.pos = @ + 1]

\* _Rehash: one turn of its loops, which links the bucket at pos of old
\* slot uIndex into ppNewTable, or goes on to the next slot
RzRehash ==
    /\ rz.pc = "rehash"
    /\ rz' = IF rz.uIndex >= rz.uSize
             THEN [rz EXCEPT !.pc = "free"]
             ELSE IF rz.pos > Len(Slot(rz.arrays.old.slots, rz.uIndex))
             THEN [rz EXCEPT !.uIndex = @ + 1, !.pos = 1]
             ELSE RehashStep(rz)
    /\ UNCHANGED <<tableState, pHash, heap, aborted, last, guard>>

\* OSFreeMem(pHash->ppBucketTable)
RzFree ==
    /\ rz.pc = "free"
    /\ rz' = [rz EXCEPT !.arrays.old.state = "freed", !.pc = "setptr"]
    /\ UNCHANGED <<tableState, pHash, heap, aborted, last, guard>>

\* pHash->ppBucketTable = ppNewTable
RzSetPtr ==
    /\ rz.pc = "setptr"
    /\ rz' = [rz EXCEPT !.ppBucketTable = "new", !.pc = "setsize"]
    /\ UNCHANGED <<tableState, pHash, heap, aborted, last, guard>>

\* pHash->uSize = uNewSize; return IMG_TRUE
RzSetSize ==
    /\ rz.pc = "setsize"
    /\ rz' = AdoptSize(rz)
    /\ UNCHANGED <<tableState, pHash, heap, aborted, last, guard>>

\* _Resize has returned and the operation that called it returns; the array
\* the table points to is the "old" one of the next _Resize
RzReturn ==
    /\ rz.pc = "done"
    /\ rz' = [rz EXCEPT !.pc = "ready",
                        !.arrays = [old |-> Referenced(rz), new |-> NoArray],
                        !.ppBucketTable = "old",
                        !.uNewSize = 0, !.uIndex = 0, !.pos = 1, !.ret = TRUE]
    /\ UNCHANGED <<tableState, pHash, heap, aborted, last, guard>>

ResizeNext ==
    \/ RzCreate \/ RzInsert \/ RzRemove \/ RzCompare \/ RzAlloc \/ RzRehash
    \/ RzFree \/ RzSetPtr \/ RzSetSize \/ RzReturn

(* ---------------------------------------------------------------------- *)
(* Actions: one per public operation                                       *)
(* ---------------------------------------------------------------------- *)
Init ==
    /\ tableState = "none"
    /\ pHash = NoTable
    /\ heap = EmptyHeap
    /\ aborted = FALSE
    /\ last = NoOp
    /\ guard = NoGuard
    /\ rz = NoResize

Running == tableState = "live" /\ ~aborted

Create ==
    /\ tableState = "none" /\ ~aborted
    /\ \E uInitialLen \in 0..MaxInitLen, uKeySize \in {0, WordSize},
          hashFn \in BOOLEAN, compFn \in BOOLEAN,
          tableOk \in BOOLEAN, arrayOk \in BOOLEAN :
         \E r \in {HASH_Create_Extended(heap, uInitialLen, uKeySize, hashFn, compFn, tableOk, arrayOk)} :
             /\ pHash' = r.h
             /\ heap' = r.m
             /\ tableState' = IF r.ret THEN "live" ELSE "none"
             /\ last' = [NoOp EXCEPT !.op = "create", !.k = uInitialLen,
                                     !.ret = IF r.ret THEN 1 ELSE 0,
                                     !.allocs = r.allocs,
                                     !.args = [uKeySize |-> uKeySize, hashFn |-> hashFn,
                                               compFn |-> compFn, tableOk |-> tableOk,
                                               arrayOk |-> arrayOk]]
    /\ UNCHANGED <<aborted, guard, rz>>

Insert ==
    /\ Running
    /\ \E pKey \in Keys, v \in Vals, arrayOk \in BOOLEAN,
          bucketOk \in { ok \in BOOLEAN :
                           /\ ok => heap.buckets < MaxBuckets
                           /\ ~ok => pHash.hRefCount < MaxRef } :
         \E r \in {HASH_Insert_Extended(pHash, heap, pKey, v, bucketOk, arrayOk)} :
             /\ pHash' = r.h
             /\ heap' = r.m
             /\ aborted' = r.fatal
             /\ last' = [NoOp EXCEPT !.op = "insert", !.k = pKey, !.v = v,
                                     !.ret = r.ret, !.fatal = r.fatal,
                                     !.bucketAllocFailed = r.bucketAllocFailed,
                                     !.resize = r.resize,
                                     !.preCount = pHash.uCount, !.preSize = pHash.uSize]
    /\ UNCHANGED <<tableState, guard, rz>>

Remove ==
    /\ Running
    /\ \E pKey \in Keys, arrayOk \in BOOLEAN :
         \E r \in {HASH_Remove_Extended(pHash, heap, pKey, arrayOk)} :
             /\ pHash' = r.h
             /\ heap' = r.m
             /\ aborted' = r.fatal
             /\ last' = [NoOp EXCEPT !.op = "remove", !.k = pKey,
                                     !.ret = r.ret, !.fatal = r.fatal,
                                     !.found = r.found, !.resize = r.resize,
                                     !.preCount = pHash.uCount, !.preSize = pHash.uSize]
    /\ UNCHANGED <<tableState, guard, rz>>

Retrieve ==
    /\ Running
    /\ \E pKey \in Keys :
         \E r \in {HASH_Retrieve_Extended(pHash, heap, pKey)} :
             /\ pHash' = r.h
             /\ heap' = r.m
             /\ aborted' = r.fatal
             /\ last' = [NoOp EXCEPT !.op = "retrieve", !.k = pKey,
                                     !.ret = r.ret, !.fatal = r.fatal,
                                     !.preCount = pHash.uCount, !.preSize = pHash.uSize]
    /\ UNCHANGED <<tableState, guard, rz>>

Iterate ==
    /\ Running
    /\ \E stopAt \in 0..MaxBuckets :
         \E r \in {HASH_Iterate(pHash, heap, stopAt)} :
             /\ pHash' = r.h
             /\ heap' = r.m
             /\ aborted' = r.fatal
             /\ last' = [NoOp EXCEPT !.op = "iterate", !.k = stopAt,
                                     !.ret = r.ret, !.fatal = r.fatal,
                                     !.visited = r.visited,
                                     !.preCount = pHash.uCount, !.preSize = pHash.uSize]
    /\ UNCHANGED <<tableState, guard, rz>>

Delete ==
    /\ Running
    /\ \E ubCrash \in BOOLEAN :
         \E r \in {HASH_Delete(pHash, heap, ubCrash)} :
             /\ pHash' = r.h
             /\ heap' = r.m
             /\ aborted' = r.fault
             /\ tableState' = IF r.fault THEN "live" ELSE "deleted"
             /\ last' = [NoOp EXCEPT !.op = "delete", !.fault = r.fault, !.ub = r.ub,
                                     !.preCount = pHash.uCount, !.preSize = pHash.uSize]
    /\ UNCHANGED <<guard, rz>>

Next == Create \/ Insert \/ Remove \/ Retrieve \/ Iterate \/ Delete

Spec == Init /\ [][Next]_vars

\* the runs in which no call of OSAllocMem returns NULL: HASH_Create_Extended
\* fails only on its arguments, HASH_Insert_Extended gets its bucket, and
\* every _Resize gets its slot array
CreateNoFail == Create /\ (last'.allocs = 0 \/ last'.ret = 1)

InsertNoFail == Insert /\ ~last'.bucketAllocFailed /\ last'.resize # "failed"

RemoveNoFail == Remove /\ last'.resize # "failed"

NextNoFail ==
    CreateNoFail \/ InsertNoFail \/ RemoveNoFail \/ Retrieve \/ Iterate \/ Delete

SpecNoFail == Init /\ [][NextNoFail]_vars

\* two call stacks running public operations of one table, the guard taken
\* one statement at a time
SpecGuard == Init /\ [][GuardNext]_vars

\* one table whose _Resize runs one statement at a time
SpecResize == Init /\ [][ResizeNext]_vars

(* ---------------------------------------------------------------------- *)
(* Observations used by the properties                                     *)
(* ---------------------------------------------------------------------- *)
\* what HASH_Retrieve would hand back for key k on table h
Retrieved(h, k) == HASH_Retrieve_Extended(h, heap, k).ret

RECURSIVE SumLen(_, _)
SumLen(ppTable, i) == IF i > Len(ppTable) THEN 0 ELSE Len(ppTable[i]) + SumLen(ppTable, i + 1)

\* the number of buckets reached by walking the chains of all slots
ReachableBuckets(h) == SumLen(h.ppBucketTable, 1)

\* the keys held by some bucket of some chain
KeysPresent(h) ==
    {k \in Keys : \E i \in 1..Len(h.ppBucketTable) :
                     \E j \in 1..Len(h.ppBucketTable[i]) : h.ppBucketTable[i][j].k = k}

\* every bucket is found by the lookup that scans only the slot of its key
EveryEntryRetrievable(h) ==
    \A i \in 1..Len(h.ppBucketTable) : \A j \in 1..Len(h.ppBucketTable[i]) :
        LET k == h.ppBucketTable[i][j].k
        IN  FindInChain(Slot(h.ppBucketTable, KEY_TO_INDEX(k, h.uSize)), 1, k) # 0

(* ---------------------------------------------------------------------- *)
(* Properties                                                              *)
(* ---------------------------------------------------------------------- *)

\* C1: a successful insert(k, v) with v # 0, from any reachable table state
\* and whether or not k is already present, is followed by a retrieve(k)
\* that returns v.
C1_RoundTrip ==
    (Running /\ last.op = "insert" /\ last.ret = 1 /\ last.v # 0)
        => LET r == HASH_Retrieve_Extended(pHash, heap, last.k)
           IN  ~r.fatal /\ r.ret = last.v

\* C2: every public operation releases the guard on every return path:
\* between operations the guard counter is 0, and no operation of a
\* sequential run reaches the fatal exit of _dec_ref.
C2_GuardReleased ==
    /\ tableState = "live" => pHash.hRefCount = 0
    /\ ~last.fatal

\* C3: after remove(k) of a present key, count is one less than before and
\* retrieve(k) returns the sentinel 0.
C3_PostRemoval ==
    (Running /\ last.op = "remove" /\ last.found)
        => /\ pHash.uCount = last.preCount - 1
           /\ Retrieved(pHash, last.k) = 0

\* C4: destroy on a table with count > 0 frees every remaining bucket,
\* touches no slot that holds no bucket, then frees the slot array and the
\* table structure: nothing stays allocated.
C4_DeleteFreesAll ==
    (last.op = "delete" /\ last.preCount > 0)
        => /\ ~last.ub /\ ~last.fault
           /\ heap.buckets = 0 /\ heap.arrays = 0 /\ heap.tables = 0

\* C5: after any sequence of completed operations (failed inserts and
\* failed resizes included), count equals the number of buckets reachable
\* by walking the chains of all slots.
C5_CountInvariant ==
    Running => pHash.uCount = ReachableBuckets(pHash)

C5_Witness ==
    /\ Running /\ last.op = "remove" /\ last.found /\ last.resize = "failed"
    /\ pHash.uCount >= 1 /\ pHash.hRefCount = 0

\* C6: count equals the number of distinct keys currently in the table.
C6_CountDistinctKeys ==
    Running => pHash.uCount = Cardinality(KeysPresent(pHash))

\* C7: when the bucket allocation fails, insert returns failure, count,
\* size, the slot array and every chain are as before the call, and every
\* key present before is still retrievable with the same value.
C7_InsertAllocFailure ==
    [][ (last'.op = "insert" /\ last'.bucketAllocFailed)
          => /\ last'.ret = 0
             /\ pHash'.uCount = pHash.uCount
             /\ pHash'.uSize = pHash.uSize
             /\ pHash'.ppBucketTable = pHash.ppBucketTable
             /\ \A k \in KeysPresent(pHash) :
                   \E r \in {HASH_Retrieve_Extended(pHash', heap', k)} :
                       ~r.fatal /\ r.ret = Retrieved(pHash, k) ]_vars

\* C8: a failed slot-array allocation during the grow attempt of an insert
\* or the shrink attempt of a remove is swallowed: the insert returns
\* success with the new entry first in its chain and counted, the remove
\* returns the removed value with count decremented, size and the slot
\* array are those the operation had before it attempted the resize, and
\* every entry is found by a lookup.
C8_ResizeFailureSwallowed ==
    [][ (last'.resize = "failed" /\ ~last'.fatal)
          => \E uIndex \in {KEY_TO_INDEX(last'.k, pHash.uSize)} :
             \E old \in {Slot(pHash.ppBucketTable, uIndex)},
                new \in {Slot(pHash'.ppBucketTable, uIndex)} :
                 /\ pHash'.uSize = pHash.uSize
                 /\ Len(pHash'.ppBucketTable) = pHash.uSize
                 /\ heap'.arrays = heap.arrays
                 /\ \A i \in 0..(pHash.uSize - 1) :
                       i # uIndex => Slot(pHash'.ppBucketTable, i) = Slot(pHash.ppBucketTable, i)
                 /\ EveryEntryRetrievable(pHash')
                 /\ \A k \in Keys \ {last'.k} : Retrieved(pHash', k) = Retrieved(pHash, k)
                 /\ last'.op = "insert"
                       => /\ last'.ret = 1
                          /\ pHash'.uCount = pHash.uCount + 1
                          /\ new = <<[ui32Sig |-> BUCKET_SIG, v |-> last'.v, k |-> last'.k]>> \o old
                          /\ Retrieved(pHash', last'.k) = last'.v
                 /\ last'.op = "remove"
                       => /\ last'.ret = Retrieved(pHash, last'.k)
                          /\ pHash'.uCount = pHash.uCount - 1
                          /\ Len(new) = Len(old) - 1
                          /\ \E i \in 1..Len(old) :
                                /\ old[i].k = last'.k
                                /\ \A j \in 1..(i - 1) : old[j].k # last'.k
                                /\ new = SubSeq(old, 1, i - 1) \o SubSeq(old, i + 1, Len(old)) ]_vars

C8_Witness ==
    /\ Running /\ last.op = "insert" /\ last.resize = "failed" /\ last.ret = 1
    /\ pHash.uCount >= 2 /\ pHash.uSize = last.preSize

\* C9: a successful insert into a table of size S that leaves count*2 > S
\* doubles the size to 2S when the slot-array allocation succeeds and
\* leaves it at S when count*2 <= S; every key inserted earlier is still
\* retrieved with its unchanged value.
C9_GrowthTrigger ==
    [][ (last'.op = "insert" /\ last'.ret = 1 /\ ~last'.fatal)
          => /\ (pHash'.uCount * 2 > pHash.uSize /\ last'.resize = "ok")
                   => pHash'.uSize = 2 * pHash.uSize
             /\ pHash'.uCount * 2 <= pHash.uSize => pHash'.uSize = pHash.uSize
             /\ \A k \in KeysPresent(pHash) \ {last'.k} :
                   Retrieved(pHash', k) = Retrieved(pHash, k) ]_vars

\* C10: a remove of a present key from a table of size S that leaves
\* S > count*4 and S > minimumSize shrinks the size to max(S/2, minimumSize)
\* when the slot-array allocation succeeds and leaves it at S otherwise;
\* every remaining key is still retrieved with its value.
C10_ShrinkTrigger ==
    [][ (last'.op = "remove" /\ last'.found /\ ~last'.fatal)
          => \E S \in {pHash.uSize} :
             \E shrink \in {S > pHash'.uCount * 4 /\ S > pHash.uMinimumSize} :
                 /\ (shrink /\ last'.resize = "ok")
                       => pHash'.uSize = PRIVATE_MAX(S \div 2, pHash.uMinimumSize)
                 /\ (~shrink \/ last'.resize # "ok") => pHash'.uSize = S
                 /\ \A k \in KeysPresent(pHash') \ {last'.k} :
                       Retrieved(pHash', k) = Retrieved(pHash, k) ]_vars

\* the <<key, value>> pairs of all buckets, slot by slot from slot i on and
\* along each chain from its head
RECURSIVE TablePairs(_, _)
TablePairs(ppTable, i) ==
    IF i > Len(ppTable) THEN <<>>
    ELSE [j \in 1..Len(ppTable[i]) |-> <<ppTable[i][j].k, ppTable[i][j].v>>]
             \o TablePairs(ppTable, i + 1)

\* how often e occurs in the sequence seq
Occurrences(seq, e) == Cardinality({j \in 1..Len(seq) : seq[j] = e})

\* C11: in every state of a live table, whatever inserts, removes and
\* allocation failures led to it, uSize >= uMinimumSize; uMinimumSize is the
\* uInitialLen passed to the create call and no later operation changes it.
C11_FloorInvariant ==
    [][ tableState' = "live"
          => /\ pHash'.uSize >= pHash'.uMinimumSize
             /\ last'.op = "create" => pHash'.uMinimumSize = last'.k
             /\ tableState = "live" => pHash'.uMinimumSize = pHash.uMinimumSize ]_vars

C11_Witness ==
    /\ Running /\ last.op = "remove" /\ last.resize = "ok"
    /\ pHash.uSize = pHash.uMinimumSize /\ last.preSize > pHash.uSize

\* C12: an iterate whose visitor answers PVRSRV_OK every time invokes the
\* visitor exactly uCount times, the visited <<key, value>> pairs are, with
\* their multiplicities, the pairs of the buckets in the table, and the
\* iterate returns PVRSRV_OK.
C12_IterationComplete ==
    (Running /\ last.op = "iterate" /\ (last.k = 0 \/ last.k > pHash.uCount))
        => /\ last.ret = PVRSRV_OK
           /\ Len(last.visited) = pHash.uCount
           /\ \A k \in Keys, v \in Vals :
                 Occurrences(last.visited, <<k, v>>)
                     = Occurrences(TablePairs(pHash.ppBucketTable, 1), <<k, v>>)

C12_Witness ==
    /\ Running /\ last.op = "iterate" /\ last.k = 0
    /\ Len(last.visited) = MaxBuckets /\ pHash.uSize > pHash.uMinimumSize

C19_SlotPlacement ==
    Running
        => /\ Len(pHash.ppBucketTable) = pHash.uSize
           /\ \A i \in 1..Len(pHash.ppBucketTable) :
                 \A j \in 1..Len(pHash.ppBucketTable[i]) :
                    KEY_TO_INDEX(pHash.ppBucketTable[i][j].k, pHash.uSize) = i - 1
           /\ EveryEntryRetrievable(pHash)

C19_Witness ==
    /\ Running /\ last.op = "insert" /\ last.resize = "ok" /\ pHash.uCount >= 2
    /\ \E i \in 2..Len(pHash.ppBucketTable) : pHash.ppBucketTable[i] # <<>>
    /\ pHash.ppBucketTable[1] # <<>>

\* C17: a create with uInitialLen = 0, uKeySize = 0 or a NULL hash or
\* compare function returns NULL without calling the allocator; a create
\* whose slot-array allocation fails after the table structure was
\* allocated frees the structure; after any failed create no block is
\* allocated and there is no table.
C17_CreateFailure ==
    [][ (last'.op = "create" /\ last'.ret = 0)
          => /\ tableState' = "none"
             /\ heap' = EmptyHeap
             /\ (last'.k = 0 \/ last'.args.uKeySize = 0
                    \/ ~last'.args.hashFn \/ ~last'.args.compFn)
                   => last'.allocs = 0
             /\ (last'.k # 0 /\ last'.args.uKeySize # 0
                    /\ last'.args.hashFn /\ last'.args.compFn)
                   => /\ ~last'.args.tableOk \/ ~last'.args.arrayOk
                      /\ last'.allocs = IF last'.args.tableOk THEN 2 ELSE 1 ]_vars

C17_Witness ==
    /\ last.op = "create" /\ last.ret = 0 /\ last.allocs = 2
    /\ last.args.tableOk /\ ~last.args.arrayOk
    /\ tableState = "none" /\ heap = EmptyHeap

\* C18: on a table created with uInitialLen = 4 that holds distinct keys,
\* with no allocation failing: the inserts of a first and of a second new
\* key leave uSize at 4, the insert of a third makes it 8 and all three
\* keys are retrieved with their values; the remove of one of three keys
\* leaves uSize at 8, the remove of one of the remaining two makes it 4,
\* and the key left is retrieved with its value.
C18_Scenario ==
    [][ (/\ tableState = "live" /\ ~aborted
         /\ pHash.uMinimumSize = 4 /\ pHash.hRefCount = 0
         /\ pHash.uCount = Cardinality(KeysPresent(pHash))
         /\ ~last'.fatal /\ ~last'.bucketAllocFailed /\ last'.resize # "failed")
          => /\ (last'.op = "insert" /\ last'.k \notin KeysPresent(pHash)
                    /\ pHash.uSize = 4 /\ pHash.uCount < 2)
                   => /\ pHash'.uSize = 4
                      /\ pHash'.uCount = pHash.uCount + 1
             /\ (last'.op = "insert" /\ last'.k \notin KeysPresent(pHash)
                    /\ pHash.uSize = 4 /\ pHash.uCount = 2)
                   => /\ pHash'.uSize = 8
                      /\ pHash'.uCount = 3
                      /\ KeysPresent(pHash') = KeysPresent(pHash) \cup {last'.k}
                      /\ EveryEntryRetrievable(pHash')
                      /\ Retrieved(pHash', last'.k) = last'.v
                      /\ \A k \in KeysPresent(pHash) :
                            Retrieved(pHash', k) = Retrieved(pHash, k)
             /\ (last'.op = "remove" /\ last'.k \in KeysPresent(pHash)
                    /\ pHash.uSize = 8 /\ pHash.uCount = 3)
                   => /\ pHash'.uSize = 8
                      /\ pHash'.uCount = 2
             /\ (last'.op = "remove" /\ last'.k \in KeysPresent(pHash)
                    /\ pHash.uSize = 8 /\ pHash.uCount = 2)
                   => /\ pHash'.uSize = 4
                      /\ pHash'.uCount = 1
                      /\ KeysPresent(pHash') = KeysPresent(pHash) \ {last'.k}
                      /\ EveryEntryRetrievable(pHash')
                      /\ \A k \in KeysPresent(pHash') :
                            Retrieved(pHash', k) = Retrieved(pHash, k) ]_vars

C18_Witness ==
    /\ Running /\ pHash.uMinimumSize = 4 /\ pHash.uSize = 4 /\ pHash.uCount = 1
    /\ last.op = "remove" /\ last.found /\ last.resize = "ok"
    /\ last.preSize = 8 /\ last.preCount = 2

\* call stack t takes a step
StepOf(t) ==
    guard'.frames[t] # guard.frames[t] \/ (guard.bugged = 0 /\ guard'.bugged = t)

\* call stack t is at statement pc of its innermost frame
AtPc(t, pc) == guard.frames[t] # <<>> /\ Top(guard, t).pc = pc

\* a frame other than the innermost of stack t is past its _inc_ref and has
\* not performed the read of its _dec_ref
OtherInBody(t) ==
    \E a \in FrameIds(guard.frames) :
        /\ a # <<t, Len(guard.frames[t])>>
        /\ guard.frames[a[1]][a[2]].pc \in {"body", "dec_read"}

\* C14: an operation the visitor of an iterate calls on the iterated table
\* reads a nonzero counter in its _inc_ref and goes on, reads a counter
\* other than 1 in its _dec_ref and ends in BUG()/abort(); it never returns
\* to the visitor.
C14_VisitorReentry ==
    [][ \A t \in Stacks :
          Len(guard.frames[t]) > 1
            => /\ (AtPc(t, "inc_read") /\ StepOf(t)) => Top(guard', t).iRef # 0
               /\ (AtPc(t, "inc_add") /\ StepOf(t)) => Top(guard', t).pc = "body"
               /\ (AtPc(t, "dec_read") /\ StepOf(t)) => Top(guard', t).iRef # 1
               /\ (AtPc(t, "dec_check") /\ StepOf(t)) => guard'.bugged = t
               /\ Len(guard'.frames[t]) >= Len(guard.frames[t]) ]_vars

\* C15: when two operations are both past their _inc_ref before either
\* performs the read of its _dec_ref, the first such read is not 1 and that
\* caller ends in BUG()/abort(); no statement of the guard waits for the
\* other caller; and BUG()/abort() is reached only after such an overlap.
C15_OverlapDetection ==
    [][ \A t \in Stacks :
          /\ (guard.frames[t] # <<>> /\ guard.bugged = 0) => ENABLED GuardStep(t)
          /\ (AtPc(t, "dec_read") /\ StepOf(t) /\ OtherInBody(t))
                => Top(guard', t).iRef # 1
          /\ (AtPc(t, "dec_check") /\ StepOf(t) /\ Top(guard, t).iRef # 1)
                => guard'.bugged = t
          /\ guard'.bugged # 0 => guard'.overlap ]_vars

\* a _Resize is between two of its statements, or has just returned
InResize == rz.pc \in {"compare", "alloc", "rehash", "free", "setptr", "setsize", "done"}

\* C20: at every step of a resize the array the table points to is
\* allocated, not freed, and its length is the table's uSize.
C20_AtomicAdoption ==
    InResize => /\ Referenced(rz).state = "allocated"
                /\ Referenced(rz).len = rz.uSize

\* C20 as the code has it: _Resize frees the old array, then stores the new
\* pointer, then stores the new size.  After the free and before the
\* pointer store the table points to the freed array; after the pointer
\* store and before the size store it points to the new array while uSize
\* is still the old length; at every other step, after a failed allocation
\* and when _Resize has returned, the array the table points to is
\* allocated and its length is uSize.
C20_AdoptionSteps ==
    InResize
        => /\ rz.pc \notin {"setptr", "setsize"}
                => /\ Referenced(rz).state = "allocated"
                   /\ Referenced(rz).len = rz.uSize
           /\ rz.pc = "setptr"
                => /\ Referenced(rz).state = "freed"
                   /\ Referenced(rz).len = rz.uSize
           /\ rz.pc = "setsize"
                => /\ Referenced(rz).state = "allocated"
                   /\ Referenced(rz).len = rz.uNewSize
                   /\ Referenced(rz).len # rz.uSize

C20_Witness ==
    /\ rz.pc = "done" /\ rz.ret /\ rz.ppBucketTable = "new"
    /\ rz.uCount >= 2 /\ rz.uSize = rz.uNewSize
    /\ rz.arrays.old.state = "freed"

\* the buckets of all chains of a slot array carry BUCKET_SIG
AllSigned(ppTable) ==
    \A i \in 1..Len(ppTable) : \A j \in 1..Len(ppTable[i]) :
        ppTable[i][j].ui32Sig = BUCKET_SIG

\* C21: a successful _Resize leaves uCount as it was at every one of its
\* statements, and the array it adopts holds as many buckets as the old
\* one, every (key, value) as often as the old one held it, no bucket
\* marked freed: only slots and links differ.
C21_RehashPreserves ==
    [][ /\ rz.pc \in {"compare", "alloc", "rehash", "free", "setptr", "setsize"}
            => rz'.uCount = rz.uCount
        /\ (rz.pc = "setsize" /\ rz'.pc = "done" /\ rz'.ret)
            => \E new \in {Referenced(rz').slots}, old \in {rz.arrays.old.slots} :
                 /\ rz'.ppBucketTable = "new"
                 /\ SumLen(new, 1) = SumLen(old, 1)
                 /\ AllSigned(new)
                 /\ \E pn \in {TablePairs(new, 1)}, po \in {TablePairs(old, 1)} :
                       \A k \in Keys, v \in Vals :
                           Occurrences(pn, <<k, v>>) = Occurrences(po, <<k, v>>) ]_vars

\* a shrink or growth has rehashed two or more buckets, two of them with
\* one key, into an array whose chains differ from the old ones
C21_Witness ==
    /\ rz.pc = "done" /\ rz.ret /\ rz.ppBucketTable = "new"
    /\ rz.arrays.new.len # rz.arrays.old.len
    /\ \E i \in 1..rz.arrays.new.len : Len(rz.arrays.new.slots[i]) >= 2
    /\ \E k \in Keys : Occurrences(TablePairs(rz.arrays.new.slots, 1), <<k, 1>>) >= 2

\* C22: a retrieve, hit or miss, leaves uCount, uSize, uMinimumSize, the
\* slot array and every chain as they were, allocates and frees nothing,
\* leaves hRefCount at 0, and returns the value of the first bucket of the
\* key's chain whose key matches, or 0 when none does.
C22_RetrieveNonMutating ==
    [][ last'.op = "retrieve"
          => /\ pHash'.uCount = pHash.uCount
             /\ pHash'.uSize = pHash.uSize
             /\ pHash'.uMinimumSize = pHash.uMinimumSize
             /\ pHash'.ppBucketTable = pHash.ppBucketTable
             /\ heap' = heap
             /\ last'.resize = "none"
             /\ pHash'.hRefCount = 0
             /\ \E chain \in {Slot(pHash.ppBucketTable, KEY_TO_INDEX(last'.k, pHash.uSize))} :
                 \E hits \in {{j \in 1..Len(chain) : chain[j].k = last'.k}} :
                    /\ hits = {} => last'.ret = 0
                    /\ hits # {} => \E j \in hits : /\ \A i \in hits : j <= i
                                                   /\ last'.ret = chain[j].v ]_vars

\* C23: in a run in which no allocation fails, after every insert and every
\* remove that returned, uCount * 2 <= uSize.
C23_LoadBound ==
    (tableState = "live" /\ last.op \in {"insert", "remove"} /\ ~last.fatal)
        => pHash.uCount * 2 <= pHash.uSize

\* an insert has doubled the table and left it exactly half full
C23_Witness ==
    /\ tableState = "live" /\ last.op = "insert" /\ last.resize = "ok"
    /\ pHash.uCount >= 2 /\ pHash.uSize = 2 * last.preSize
    /\ pHash.uCount * 2 = pHash.uSize

\* the shrink condition of HASH_Remove_Extended is false of the table
Settled == pHash.uSize <= pHash.uCount * 4 \/ pHash.uSize = pHash.uMinimumSize

\* C24: in a run in which no allocation fails, after every remove of a
\* present key uSize <= uCount * 4 or uSize = uMinimumSize, and a table
\* emptied by removes has uSize = uMinimumSize.
C24_ShrinkSettles ==
    (tableState = "live" /\ last.op = "remove" /\ last.found /\ ~last.fatal)
        => /\ Settled
           /\ pHash.uCount = 0 => pHash.uSize = pHash.uMinimumSize

\* C24 as the code has it: the same for every initial length >= 2; for
\* initial length 1 the same except after the remove that empties a table
\* of size 4, which halves it once and leaves it at size 2.
C24_ShrinkSettlesExcept ==
    (tableState = "live" /\ last.op = "remove" /\ last.found /\ ~last.fatal)
        => \/ /\ Settled
              /\ pHash.uCount = 0 => pHash.uSize = pHash.uMinimumSize
           \/ /\ pHash.uMinimumSize = 1 /\ pHash.uCount = 0
              /\ last.preSize = 4 /\ pHash.uSize = 2

\* removes have emptied a table of initial length 2 or more, the last one
\* halving it to its minimum size
C24_Witness ==
    /\ tableState = "live" /\ last.op = "remove" /\ last.found /\ last.resize = "ok"
    /\ pHash.uMinimumSize >= 2 /\ pHash.uCount = 0
    /\ pHash.uSize = pHash.uMinimumSize /\ last.preSize = 2 * pHash.uSize

====
